---------------------------- MODULE Spec2Model ----------------------------
(***************************************************************************)
(* Model of the lyric synchronisation code of Python-Music-Player.         *)
(*                                                                         *)
(*   MusicPlayer      (src/music_player.py): a Tk application; load,       *)
(*                    play_pause, stop and the 200 ms update_loop callback *)
(*                    all run on the one GUI thread, so each handler is    *)
(*                    one atomic action.                                   *)
(*   LyricsDisplayer  (src/yt_music_player_yt_dlp.py): a daemon thread     *)
(*                    that polls a VLC player while main() reads commands; *)
(*                    the two interleave at every shared read and write.   *)
(*                                                                         *)
(* The two programs are separate: Spec runs MusicPlayer, SpecLD runs the   *)
(* LyricsDisplayer thread with main(); each leaves the other's variables   *)
(* at their initial values.                                                *)
(*                                                                         *)
(* All durations are integers in milliseconds.  The code holds play times  *)
(* in float seconds and pygame positions in integer milliseconds and       *)
(* converts with /1000.0; a value of s seconds is held here as 1000*s.     *)
(***************************************************************************)
EXTENDS Integers, Sequences, FiniteSets, TLC

(***************************************************************************)
(* Bounds of the model.                                                    *)
(***************************************************************************)
\* number of clock steps the wall clock may take
MaxTicks == 3
\* longest timeline a caption source yields
MaxLen == 2
\* most tokens (markers, words, blanks) in one line of an .lrc file
MaxToks == 3
\* granularity of the clocks (one clock step), in ms
Step == 100

(***************************************************************************)
(* Program constants.                                                      *)
(***************************************************************************)
\* update_loop: "time_s <= t + 0.1"
Tolerance == 100


InitialText == "Lyrics will appear here when a .lrc file is loaded (same folder as audio or chosen)."
StoppedText == "Playback stopped."

\* audio files the file dialog can return; "" stands for None / cancelled
Files == {"a.mp3"}

\* start offsets (ms) and texts a caption line can carry
Offsets == {0, 200}
Texts == {"", "A"}

IsSorted(tl) == \A i \in 1..(Len(tl) - 1) : tl[i][1] <= tl[i + 1][1]

SeqsUpTo(S, n) == UNION {[1..k -> S] : k \in 0..n}

\* what parse_lrc can return: entries (t, text), sorted by t (line 109)
Timelines == {tl \in SeqsUpTo(Offsets \X Texts, MaxLen) : IsSorted(tl)}

VARIABLES
    \* ---- MusicPlayer fields (__init__, lines 21-27, 40-41)
    playing, paused, audio_path, lrc, start_time, pause_offset,
    pygame_initialized, lyric_var,
    \* ---- the Tk timer: TRUE while update_loop is scheduled (line 170)
    loopAlive,
    \* ---- environment: wall clock (time.time()) and pygame.mixer.music
    now, mloaded, mstate, mpos,
    \* ---- history (not read by any handler)
    ev,          \* the handler step that led to this state
    pausedAt,    \* elapsed play time at the instant of the pause (0 when not paused)
    shownIdx,    \* index in lrc of the entry last presented since stop/load
    restart,     \* the last step was a play that directly followed stop()
    capSrc,      \* entries of the caption source the load just done chose
    \* ---- LyricsDisplayer fields (__init__, lines 103-112)
    ld_entries, ld_stop_flag,
    \* ---- LyricsDisplayer.run: its locals and its place in the code
    ld_idx, ld_cur, ld_prev, ld_pc,
    \* ---- the VLC player and main()'s place in its control loop
    vstate, vtime, main_pc,
    \* ---- what the thread wrote to stdout, and its clock readings (history)
    ld_out,      \* the lyric lines written: <<index of the entry, reading>>
    ld_shown,    \* the last timer text written (<<-1, -1>>: none)
    ld_mono,     \* the readings taken by the lyric loop never decreased
    ld_last,     \* the last reading taken by the lyric loop
    \* ---- one call of MusicPlayer.parse_lrc (lines 96-110)
    p_pc,        \* "off", "reading" (inside the for loop), "done" (returned)
    p_entries,   \* the local list entries, in append order
    p_result,    \* the list returned (entries after the sort of line 109)
    p_line,      \* the line the loop body ran on last (history)
    p_new        \* the entries that line appended (history)

mpVars == <<playing, paused, audio_path, lrc, start_time, pause_offset,
            pygame_initialized, lyric_var, loopAlive>>
envVars == <<now, mloaded, mstate, mpos>>
histVars == <<ev, pausedAt, shownIdx, restart, capSrc>>
ldVars == <<ld_entries, ld_stop_flag, ld_idx, ld_cur, ld_prev, ld_pc>>
vlcVars == <<vstate, vtime, main_pc>>
ldHist == <<ld_out, ld_shown, ld_mono, ld_last>>
ytVars == <<ldVars, vlcVars, ldHist>>
mpAll == <<mpVars, envVars, histVars>>
pVars == <<p_pc, p_entries, p_result, p_line, p_new>>
vars == <<mpAll, ytVars, pVars>>

(***************************************************************************)
(* pygame.mixer.music as the code uses it.                                 *)
(***************************************************************************)
\* pygame.mixer.music.get_pos(): ms played, -1 when no music is active
GetPos == IF mstate = "idle" THEN -1 ELSE mpos

\* get_play_time, given what get_pos returned (value in ms)
GetPlayTimeOf(pos) ==
    IF ~pygame_initialized THEN 0
    ELSE IF pos >= 0 THEN pos
    ELSE IF playing /\ ~paused THEN now - start_time
    ELSE IF paused THEN pause_offset
    ELSE 0

GetPlayTime == GetPlayTimeOf(GetPos)

(***************************************************************************)
(* update_loop's scan of the timeline (lines 162-167): res is <<text, idx>>*)
(* with idx the index of the entry whose text was taken (0: none).         *)
(***************************************************************************)
RECURSIVE Scan(_, _, _, _)
Scan(tl, i, t, res) ==
    IF i > Len(tl) THEN res
    ELSE IF tl[i][1] <= t + Tolerance
         THEN Scan(tl, i + 1, t, <<tl[i][2], i>>)
         ELSE res

LyricScan(tl, t) == Scan(tl, 1, t, <<"", 0>>)

MPInit ==
    /\ playing = FALSE
    /\ paused = FALSE
    /\ audio_path = ""
    /\ lrc = <<>>
    /\ start_time = 0
    /\ pause_offset = 0
    /\ pygame_initialized = FALSE
    /\ lyric_var = InitialText
    /\ loopAlive = TRUE
    /\ now = 0
    /\ mloaded = FALSE
    /\ mstate = "idle"
    /\ mpos = 0
    /\ ev = "init"
    /\ pausedAt = 0
    /\ shownIdx = 0
    /\ restart = FALSE
    /\ capSrc = <<>>

(***************************************************************************)
(* Environment steps.                                                      *)
(***************************************************************************)
\* the wall clock advances; active, unpaused music advances with it
Advance ==
    /\ now < MaxTicks * Step
    /\ now' = now + Step
    /\ mpos' = IF mstate = "playing" THEN mpos + Step ELSE mpos
    /\ ev' = "advance"
    /\ restart' = FALSE
    /\ capSrc' = <<>>
    /\ UNCHANGED <<mpVars, mloaded, mstate, pausedAt, shownIdx>>
    /\ UNCHANGED <<ytVars, pVars>>

\* the track, after playing for some time, reaches its end: the mixer goes
\* idle and get_pos returns -1 from then on
TrackEnd ==
    /\ mstate = "playing"
    /\ mpos > 0
    /\ mstate' = "idle"
    /\ mpos' = 0
    /\ ev' = "trackend"
    /\ restart' = FALSE
    /\ capSrc' = <<>>
    /\ UNCHANGED <<mpVars, now, mloaded, pausedAt, shownIdx>>
    /\ UNCHANGED <<ytVars, pVars>>

(***************************************************************************)
(* MusicPlayer.stop (lines 138-145)                                        *)
(***************************************************************************)
\* stop() as it would be without line 142 (paused is left as it was)
StopKeepsPaused ==
    /\ IF pygame_initialized
       THEN mstate' = "idle" /\ mpos' = 0
       ELSE UNCHANGED <<mstate, mpos>>
    /\ playing' = FALSE
    /\ pause_offset' = 0
    /\ lyric_var' = StoppedText
    /\ ev' = "stop"
    /\ shownIdx' = 0
    /\ pausedAt' = 0
    /\ restart' = FALSE
    /\ capSrc' = <<>>
    /\ UNCHANGED <<paused, audio_path, lrc, start_time, pygame_initialized,
                   loopAlive, now, mloaded>>
    /\ UNCHANGED <<ytVars, pVars>>

\* stop() as it would be without line 143 (pause_offset is left as it was)
StopKeepsOffset ==
    /\ IF pygame_initialized
       THEN mstate' = "idle" /\ mpos' = 0
       ELSE UNCHANGED <<mstate, mpos>>
    /\ playing' = FALSE
    /\ paused' = FALSE
    /\ lyric_var' = StoppedText
    /\ ev' = "stop"
    /\ shownIdx' = 0
    /\ pausedAt' = 0
    /\ restart' = FALSE
    /\ capSrc' = <<>>
    /\ UNCHANGED <<pause_offset, audio_path, lrc, start_time,
                   pygame_initialized, loopAlive, now, mloaded>>
    /\ UNCHANGED <<ytVars, pVars>>

Stop ==
    /\ IF pygame_initialized
       THEN mstate' = "idle" /\ mpos' = 0
       ELSE UNCHANGED <<mstate, mpos>>
    /\ playing' = FALSE
    /\ paused' = FALSE
    /\ pause_offset' = 0
    /\ lyric_var' = StoppedText
    /\ ev' = "stop"
    /\ shownIdx' = 0
    /\ pausedAt' = 0
    /\ restart' = FALSE
    /\ capSrc' = <<>>
    /\ UNCHANGED <<audio_path, lrc, start_time, pygame_initialized, loopAlive,
                   now, mloaded>>
    /\ UNCHANGED <<ytVars, pVars>>

(***************************************************************************)
(* MusicPlayer.load (lines 64-94).  ensure_pygame (lines 48-62) succeeds   *)
(* at once when already initialised and may fail otherwise.                *)
(***************************************************************************)
\* ensure_pygame fails: load returns at line 67
LoadNoPygame ==
    /\ ~pygame_initialized
    /\ ev' = "load_noinit"
    /\ shownIdx' = 0
    /\ restart' = FALSE
    /\ capSrc' = <<>>
    /\ UNCHANGED <<mpVars, envVars, pausedAt>>
    /\ UNCHANGED <<ytVars, pVars>>

\* the file dialog is cancelled: load returns at line 71
LoadCancelled ==
    /\ pygame_initialized' = TRUE
    /\ ev' = "load_cancel"
    /\ shownIdx' = 0
    /\ restart' = FALSE
    /\ capSrc' = <<>>
    /\ UNCHANGED <<playing, paused, audio_path, lrc, start_time, pause_offset,
                   lyric_var, loopAlive, envVars, pausedAt>>
    /\ UNCHANGED <<ytVars, pVars>>

\* pygame.mixer.music.load raises: audio_path is already set (line 72),
\* the music loaded before stays loaded and goes on as it was
LoadRejected(file) ==
    /\ pygame_initialized' = TRUE
    /\ audio_path' = file
    /\ ev' = "load_rejected"
    /\ shownIdx' = 0
    /\ restart' = FALSE
    /\ capSrc' = <<>>
    /\ UNCHANGED <<playing, paused, lrc, start_time, pause_offset,
                   lyric_var, loopAlive, envVars, pausedAt>>
    /\ UNCHANGED <<ytVars, pVars>>

\* the audio loads, a caption file is found or chosen, but parse_lrc's
\* open() raises: load is left at line 83/89, before the flags are reset
LoadLrcUnreadable(file) ==
    /\ pygame_initialized' = TRUE
    /\ audio_path' = file
    /\ mloaded' = TRUE
    /\ mstate' = "idle"
    /\ mpos' = 0
    /\ ev' = "load_lrc_error"
    /\ shownIdx' = 0
    /\ restart' = FALSE
    /\ capSrc' = <<>>
    /\ UNCHANGED <<playing, paused, lrc, start_time, pause_offset,
                   lyric_var, loopAlive, now, pausedAt>>
    /\ UNCHANGED <<ytVars, pVars>>

\* lines 91-94, the end of a load that went through
LoadReset(file) ==
    /\ pygame_initialized' = TRUE
    /\ audio_path' = file
    /\ mloaded' = TRUE
    /\ mstate' = "idle"
    /\ mpos' = 0
    /\ playing' = FALSE
    /\ paused' = FALSE
    /\ pause_offset' = 0
    /\ shownIdx' = 0
    /\ pausedAt' = 0
    /\ restart' = FALSE
    /\ UNCHANGED <<start_time, lyric_var, loopAlive, now>>
    /\ UNCHANGED <<ytVars, pVars>>

\* a caption file next to the audio (line 83) or chosen by the user
\* (line 89) is parsed into tl
LoadWithLrc(file, tl) ==
    /\ LoadReset(file)
    /\ lrc' = tl
    /\ capSrc' = tl
    /\ ev' = "load_lrc"

\* no caption file next to the audio, and the user declines or cancels
\* (lines 86-88): self.lrc is not assigned
LoadNoLrc(file) ==
    /\ LoadReset(file)
    /\ lrc' = lrc
    /\ capSrc' = <<>>
    /\ ev' = "load_nolrc"

Load ==
    \/ LoadNoPygame
    \/ LoadCancelled
    \/ \E file \in Files : LoadRejected(file)
    \/ \E file \in Files : LoadLrcUnreadable(file)
    \/ \E file \in Files : \E tl \in Timelines : LoadWithLrc(file, tl)
    \/ \E file \in Files : LoadNoLrc(file)

(***************************************************************************)
(* MusicPlayer.play_pause (lines 112-136)                                  *)
(***************************************************************************)
\* no audio_path: warning and return (lines 113-115)
PlayNoFile ==
    /\ audio_path = ""
    /\ ev' = "play_nofile"
    /\ restart' = FALSE
    /\ capSrc' = <<>>
    /\ UNCHANGED <<mpVars, envVars, pausedAt, shownIdx>>
    /\ UNCHANGED <<ytVars, pVars>>

\* variant of the rejected play in which start_time is taken before the
\* call of pygame.mixer.music.play() instead of after it
PlayRejectedSetsStart ==
    /\ audio_path # ""
    /\ ~playing
    /\ start_time' = now - pause_offset
    /\ ev' = "play_rejected"
    /\ restart' = FALSE
    /\ capSrc' = <<>>
    /\ UNCHANGED <<playing, paused, audio_path, lrc, pause_offset,
                   pygame_initialized, lyric_var, loopAlive, envVars,
                   pausedAt, shownIdx>>
    /\ UNCHANGED <<ytVars, pVars>>

\* not playing, and pygame.mixer.music.play() raises (lines 117-121);
\* it always does when no music is loaded
PlayRejected ==
    /\ audio_path # ""
    /\ ~playing
    /\ ev' = "play_rejected"
    /\ restart' = FALSE
    /\ capSrc' = <<>>
    /\ UNCHANGED <<mpVars, envVars, pausedAt, shownIdx>>
    /\ UNCHANGED <<ytVars, pVars>>

\* not playing, and play() is accepted (lines 116-125)
PlayStart ==
    /\ audio_path # ""
    /\ ~playing
    /\ mloaded
    /\ mstate' = "playing"
    /\ mpos' = 0
    /\ start_time' = now - pause_offset
    /\ playing' = TRUE
    /\ paused' = FALSE
    /\ ev' = "play"
    /\ restart' = (ev = "stop")
    /\ capSrc' = <<>>
    /\ UNCHANGED <<audio_path, lrc, pause_offset, pygame_initialized,
                   lyric_var, loopAlive, now, mloaded, pausedAt, shownIdx>>
    /\ UNCHANGED <<ytVars, pVars>>

\* pygame.mixer.music.pause(): active music is held, its position kept
MixerPaused == IF mstate = "playing" THEN "paused" ELSE mstate

\* playing and not paused (lines 127-131): pause first, then read get_pos
Pause ==
    /\ audio_path # ""
    /\ playing
    /\ ~paused
    /\ mstate' = MixerPaused
    /\ mpos' = mpos
    /\ paused' = TRUE
    /\ pause_offset' = GetPos'
    /\ ev' = "pause"
    /\ pausedAt' = GetPlayTime
    /\ restart' = FALSE
    /\ capSrc' = <<>>
    /\ UNCHANGED <<playing, audio_path, lrc, start_time, pygame_initialized,
                   lyric_var, loopAlive, now, mloaded, shownIdx>>
    /\ UNCHANGED <<ytVars, pVars>>

\* playing and paused (lines 132-136)
Resume ==
    /\ audio_path # ""
    /\ playing
    /\ paused
    /\ mstate' = IF mstate = "paused" THEN "playing" ELSE mstate
    /\ start_time' = now - pause_offset
    /\ paused' = FALSE
    /\ ev' = "resume"
    /\ pausedAt' = 0
    /\ restart' = FALSE
    /\ capSrc' = <<>>
    /\ UNCHANGED <<playing, audio_path, lrc, pause_offset, pygame_initialized,
                   lyric_var, loopAlive, now, mloaded, mpos, shownIdx>>
    /\ UNCHANGED <<ytVars, pVars>>

PlayPause ==
    \/ PlayNoFile
    \/ PlayRejected
    \/ PlayStart
    \/ Pause
    \/ Resume

(***************************************************************************)
(* MusicPlayer.update_loop (lines 159-170), one firing of the Tk timer.    *)
(***************************************************************************)
\* variant of the tick that scans the timeline whatever the state is
TickAlwaysScans ==
    /\ loopAlive
    /\ LET res == LyricScan(lrc, GetPlayTime)
       IN  IF res[1] # ""
           THEN lyric_var' = res[1] /\ shownIdx' = res[2]
           ELSE UNCHANGED <<lyric_var, shownIdx>>
    /\ ev' = "tick"
    /\ restart' = FALSE
    /\ capSrc' = <<>>
    /\ UNCHANGED <<playing, paused, audio_path, lrc, start_time, pause_offset,
                   pygame_initialized, loopAlive, envVars, pausedAt>>
    /\ UNCHANGED <<ytVars, pVars>>

\* the tick runs to its end and reschedules itself
TickOk ==
    /\ loopAlive
    /\ IF playing \/ paused
       THEN LET res == LyricScan(lrc, GetPlayTime)
            IN  IF res[1] # ""
                THEN lyric_var' = res[1] /\ shownIdx' = res[2]
                ELSE UNCHANGED <<lyric_var, shownIdx>>
       ELSE UNCHANGED <<lyric_var, shownIdx>>
    /\ ev' = "tick"
    /\ restart' = FALSE
    /\ capSrc' = <<>>
    /\ UNCHANGED <<playing, paused, audio_path, lrc, start_time, pause_offset,
                   pygame_initialized, loopAlive, envVars, pausedAt>>
    /\ UNCHANGED <<ytVars, pVars>>

\* get_pos raises inside get_play_time (line 150): nothing catches it, the
\* callback is left before line 170 and is not scheduled again
TickRaises ==
    /\ loopAlive
    /\ playing \/ paused
    /\ pygame_initialized
    /\ loopAlive' = FALSE
    /\ ev' = "tick_err"
    /\ restart' = FALSE
    /\ capSrc' = <<>>
    /\ UNCHANGED <<playing, paused, audio_path, lrc, start_time, pause_offset,
                   pygame_initialized, lyric_var, envVars, pausedAt, shownIdx>>
    /\ UNCHANGED <<ytVars, pVars>>

UpdateLoop ==
    \/ TickOk
    \/ TickRaises

MPNext ==
    \/ Advance
    \/ TrackEnd
    \/ Load
    \/ PlayPause
    \/ Stop
    \/ UpdateLoop

(***************************************************************************)
(* MusicPlayer.parse_lrc (lines 96-110).  A line of the file is a sequence *)
(* of tokens: a bracketed marker "[mm:ss.fr]" or "[mm:ss]" whose three     *)
(* fields are digit strings, a word without brackets, or a blank.          *)
(***************************************************************************)
Mk(mm, ss, fr) == [k |-> "m", mm |-> mm, ss |-> ss, fr |-> fr, s |-> ""]
Tx(str) == [k |-> "t", mm |-> <<>>, ss |-> <<>>, fr |-> <<>>, s |-> str]
Blank == Tx(" ")

\* "[00:01.5]", "[00:01.500]" and "[01:00]"
LrcMarkers == {Mk(<<0, 0>>, <<0, 1>>, <<5>>),
               Mk(<<0, 0>>, <<0, 1>>, <<5, 0, 0>>),
               Mk(<<0, 1>>, <<0, 0>>, <<>>)}
Tokens == LrcMarkers \cup {Tx("A"), Blank}
Lines == SeqsUpTo(Tokens, MaxToks)

\* int() of a digit string
RECURSIVE DigitsToInt(_)
DigitsToInt(ds) ==
    IF Len(ds) = 0 THEN 0
    ELSE 10 * DigitsToInt(SubSeq(ds, 1, Len(ds) - 1)) + ds[Len(ds)]

\* str.strip(): blanks at both ends go
RECURSIVE StripToks(_)
StripToks(toks) ==
    IF Len(toks) = 0 THEN toks
    ELSE IF toks[1] = Blank THEN StripToks(Tail(toks))
    ELSE IF toks[Len(toks)] = Blank
         THEN StripToks(SubSeq(toks, 1, Len(toks) - 1))
    ELSE toks

\* lines 103-107: t = mm*60 + ss + ms/1000.0 with ms = int(group(3) or 0),
\* in milliseconds
MarkerOffset(m) ==
    (DigitsToInt(m.mm) * 60 + DigitsToInt(m.ss)) * 1000 + DigitsToInt(m.fr)

\* pattern.finditer(line) from position pos on, lines 97 and 102-108: the
\* pattern matches at the first marker; its last group (.*) runs to the end
\* of the line, so the next search starts there
RECURSIVE FindIter(_, _)
FindIter(line, pos) ==
    IF pos > Len(line) THEN <<>>
    ELSE IF line[pos].k = "m"
         THEN <<<<MarkerOffset(line[pos]),
                  StripToks(SubSeq(line, pos + 1, Len(line)))>>>>
              \o FindIter(line, Len(line) + 1)
    ELSE FindIter(line, pos + 1)

\* list.sort(key=...) is stable: e goes behind every entry not after it
RECURSIVE InsertByKey(_, _)
InsertByKey(sorted, e) ==
    IF Len(sorted) = 0 THEN <<e>>
    ELSE IF sorted[Len(sorted)][1] <= e[1] THEN Append(sorted, e)
    ELSE Append(InsertByKey(SubSeq(sorted, 1, Len(sorted) - 1), e),
                sorted[Len(sorted)])

RECURSIVE SortByKey(_)
SortByKey(es) ==
    IF Len(es) = 0 THEN <<>>
    ELSE InsertByKey(SortByKey(SubSeq(es, 1, Len(es) - 1)), es[Len(es)])

\* no call of parse_lrc under way
PIdle ==
    /\ p_pc = "off"
    /\ p_entries = <<>>
    /\ p_result = <<>>
    /\ p_line = <<>>
    /\ p_new = <<>>

\* lines 97-99: the file is open, entries is empty
PInit ==
    /\ p_pc = "reading"
    /\ p_entries = <<>>
    /\ p_result = <<>>
    /\ p_line = <<>>
    /\ p_new = <<>>

\* lines 100-108: one turn of the for loop, on the next line of the file
ParseLine(line) ==
    /\ p_pc = "reading"
    /\ Len(p_entries) < MaxLen
    /\ p_line' = line
    /\ p_new' = FindIter(StripToks(line), 1)
    /\ p_entries' = p_entries \o p_new'
    /\ UNCHANGED <<p_pc, p_result>>
    /\ UNCHANGED <<mpAll, ytVars>>

\* lines 109-110: end of file, sort and return
ParseSort ==
    /\ p_pc = "reading"
    /\ p_result' = SortByKey(p_entries)
    /\ p_pc' = "done"
    /\ UNCHANGED <<p_entries, p_line, p_new>>
    /\ UNCHANGED <<mpAll, ytVars>>

PNext ==
    \/ \E line \in Lines : ParseLine(line)
    \/ ParseSort

(***************************************************************************)
(* LyricsDisplayer (src/yt_music_player_yt_dlp.py)                         *)
(***************************************************************************)
\* run: "current_ms + 250 >= start_ms"
Lead == 250

\* a transcript item's "start", in tenths of a millisecond (the API gives
\* float seconds), and its "text" as fetched
RawStarts == {0, 3005}
RawTexts == {"A", " B "}

\* item.get("text", "").strip()
Strip(text) == IF text = " B " THEN "B" ELSE text

\* int(item.get("start", 0) * 1000): truncation to whole milliseconds
StartMs(start) == start \div 10

Transcripts == SeqsUpTo(RawStarts \X RawTexts, MaxLen)

\* LyricsDisplayer.__init__, lines 107-111: one entry per item, in order
BuildEntries(transcript) ==
    [i \in 1..Len(transcript) |->
        <<StartMs(transcript[i][1]), Strip(transcript[i][2])>>]

\* format_time_ms: <<minutes, seconds>> of the text "mm:ss"
FormatTimeMs(ms) ==
    LET s == IF ms \div 1000 > 0 THEN ms \div 1000 ELSE 0
    IN  <<s \div 60, s % 60>>

\* player.is_playing() and player.get_time() (-1: no active input)
IsPlaying == vstate = "playing"
GetTime == vtime

\* the LyricsDisplayer variables while only MusicPlayer runs
LDIdle ==
    /\ ld_entries = <<>>
    /\ ld_stop_flag = FALSE
    /\ ld_idx = 0
    /\ ld_cur = 0
    /\ ld_prev = -1
    /\ ld_pc = "done"
    /\ vstate = "stopped"
    /\ vtime = -1
    /\ main_pc = "exit"
    /\ ld_out = <<>>
    /\ ld_shown = <<-1, -1>>
    /\ ld_mono = TRUE
    /\ ld_last = -1

\* main(), lines 205-222: the player was told to play 0.7 s ago and is
\* opening or already playing; the thread is constructed and started
LDInit ==
    /\ MPInit
    /\ PIdle
    /\ \E transcript \in Transcripts : ld_entries = BuildEntries(transcript)
    /\ ld_stop_flag = FALSE
    /\ ld_idx = 0
    /\ ld_cur = 0
    /\ ld_prev = -1
    /\ ld_pc = "start"
    /\ \E st \in {"opening", "playing"} :
          /\ vstate = st
          /\ vtime = IF st = "playing" THEN 0 ELSE -1
    /\ main_pc = "check"
    /\ ld_out = <<>>
    /\ ld_shown = <<-1, -1>>
    /\ ld_mono = TRUE
    /\ ld_last = -1

\* the process lives until main() returns; the thread is a daemon
Alive == main_pc # "exit"

(***************************************************************************)
(* The VLC player on its own                                               *)
(***************************************************************************)
VlcOpened ==
    /\ Alive
    /\ vstate = "opening"
    /\ vstate' = "playing"
    /\ vtime' = 0
    /\ UNCHANGED <<ldVars, main_pc, ldHist>>
    /\ UNCHANGED <<mpAll, pVars>>

VlcAdvance ==
    /\ Alive
    /\ vstate = "playing"
    /\ vtime < MaxTicks * Step
    /\ vtime' = vtime + Step
    /\ UNCHANGED <<ldVars, vstate, main_pc, ldHist>>
    /\ UNCHANGED <<mpAll, pVars>>

VlcEnded ==
    /\ Alive
    /\ vstate = "playing"
    /\ vtime > 0
    /\ vstate' = "ended"
    /\ vtime' = -1
    /\ UNCHANGED <<ldVars, main_pc, ldHist>>
    /\ UNCHANGED <<mpAll, pVars>>

(***************************************************************************)
(* main(): the control loop (lines 226-247) and its finally (248-255)      *)
(***************************************************************************)
\* lines 229-231
MainCheck ==
    /\ main_pc = "check"
    /\ main_pc' = IF vstate \in {"ended", "stopped"} THEN "finally" ELSE "input"
    /\ UNCHANGED <<ldVars, vstate, vtime, ldHist>>
    /\ UNCHANGED <<mpAll, pVars>>

\* "p": pause when playing, else player.play() (lines 233-239); play()
\* resumes a paused player and starts an ended one again from the start
MainCmdP ==
    /\ main_pc = "input"
    /\ main_pc' = "check"
    /\ vstate' = CASE vstate = "playing" -> "paused"
                   [] vstate = "paused" -> "playing"
                   [] vstate = "ended" -> "opening"
                   [] OTHER -> vstate
    /\ vtime' = vtime
    /\ UNCHANGED <<ldVars, ldHist>>
    /\ UNCHANGED <<mpAll, pVars>>

\* "s": player.stop() and leave the loop (lines 240-243)
MainCmdS ==
    /\ main_pc = "input"
    /\ main_pc' = "finally"
    /\ vstate' = "stopped"
    /\ vtime' = -1
    /\ UNCHANGED <<ldVars, ldHist>>
    /\ UNCHANGED <<mpAll, pVars>>

\* any other line (lines 244-245)
MainCmdOther ==
    /\ main_pc = "input"
    /\ main_pc' = "check"
    /\ UNCHANGED <<ldVars, vstate, vtime, ldHist>>
    /\ UNCHANGED <<mpAll, pVars>>

\* Ctrl-C while waiting for input (lines 246-247)
MainInterrupt ==
    /\ main_pc = "input"
    /\ main_pc' = "finally"
    /\ UNCHANGED <<ldVars, vstate, vtime, ldHist>>
    /\ UNCHANGED <<mpAll, pVars>>

\* LyricsDisplayer.stop (lines 114-115), called at line 249
LDStop ==
    /\ main_pc = "finally"
    /\ ld_stop_flag' = TRUE
    /\ main_pc' = "fin_player"
    /\ UNCHANGED <<ld_entries, ld_idx, ld_cur, ld_prev, ld_pc, vstate, vtime,
                   ldHist>>
    /\ UNCHANGED <<mpAll, pVars>>

\* lines 250-253
MainFinalStop ==
    /\ main_pc = "fin_player"
    /\ vstate' = "stopped"
    /\ vtime' = -1
    /\ main_pc' = "fin_sleep"
    /\ UNCHANGED <<ldVars, ldHist>>
    /\ UNCHANGED <<mpAll, pVars>>

\* lines 254-255: after the 0.2 s sleep main() returns and the process ends
MainExit ==
    /\ main_pc = "fin_sleep"
    /\ main_pc' = "exit"
    /\ UNCHANGED <<ldVars, vstate, vtime, ldHist>>
    /\ UNCHANGED <<mpAll, pVars>>

(***************************************************************************)
(* LyricsDisplayer.run (lines 117-157), one step per shared read or write  *)
(***************************************************************************)
\* lines 118-121 / 135-137
LDRunStart ==
    /\ Alive
    /\ ld_pc = "start"
    /\ ld_pc' = IF Len(ld_entries) = 0 THEN "t_check" ELSE "l_check"
    /\ ld_prev' = -1
    /\ ld_idx' = 0
    /\ UNCHANGED <<ld_entries, ld_stop_flag, ld_cur, vlcVars, ldHist>>
    /\ UNCHANGED <<mpAll, pVars>>

\* line 123: the timer loop's condition
LDTimerCheck ==
    /\ Alive
    /\ ld_pc = "t_check"
    /\ ld_pc' = IF ~ld_stop_flag /\ IsPlaying THEN "t_read" ELSE "done"
    /\ UNCHANGED <<ld_entries, ld_stop_flag, ld_idx, ld_cur, ld_prev, vlcVars,
                   ldHist>>
    /\ UNCHANGED <<mpAll, pVars>>

\* line 124
LDTimerRead ==
    /\ Alive
    /\ ld_pc = "t_read"
    /\ ld_cur' = GetTime
    /\ ld_pc' = "t_write"
    /\ UNCHANGED <<ld_entries, ld_stop_flag, ld_idx, ld_prev, vlcVars, ldHist>>
    /\ UNCHANGED <<mpAll, pVars>>

\* lines 125-129
LDTimerWrite ==
    /\ Alive
    /\ ld_pc = "t_write"
    /\ IF ld_cur # ld_prev
       THEN ld_prev' = ld_cur /\ ld_shown' = FormatTimeMs(ld_cur)
       ELSE UNCHANGED <<ld_prev, ld_shown>>
    /\ ld_pc' = "t_check"
    /\ UNCHANGED <<ld_entries, ld_stop_flag, ld_idx, ld_cur, vlcVars, ld_out,
                   ld_mono, ld_last>>
    /\ UNCHANGED <<mpAll, pVars>>

\* line 139: the lyric loop's condition
LDLoopCheck ==
    /\ Alive
    /\ ld_pc = "l_check"
    /\ ld_pc' = IF ~ld_stop_flag /\ ld_idx < Len(ld_entries)
                THEN "l_read" ELSE "w_check"
    /\ UNCHANGED <<ld_entries, ld_stop_flag, ld_idx, ld_cur, ld_prev, vlcVars,
                   ldHist>>
    /\ UNCHANGED <<mpAll, pVars>>

\* variant of lines 140-143 that waits for a non-negative reading without
\* going back to the loop condition
LDLoopReadSpins ==
    /\ Alive
    /\ ld_pc = "l_read"
    /\ ld_cur' = GetTime
    /\ ld_pc' = IF GetTime < 0 THEN "l_read" ELSE "l_emit"
    /\ ld_mono' = (ld_mono /\ GetTime >= ld_last)
    /\ ld_last' = GetTime
    /\ UNCHANGED <<ld_entries, ld_stop_flag, ld_idx, ld_prev, vlcVars, ld_out,
                   ld_shown>>
    /\ UNCHANGED <<mpAll, pVars>>

\* variant of lines 140-143 without the test of line 141: a negative
\* reading goes on to line 144 like any other
LDLoopReadNoSkip ==
    /\ Alive
    /\ ld_pc = "l_read"
    /\ ld_cur' = GetTime
    /\ ld_pc' = "l_emit"
    /\ ld_mono' = (ld_mono /\ GetTime >= ld_last)
    /\ ld_last' = GetTime
    /\ UNCHANGED <<ld_entries, ld_stop_flag, ld_idx, ld_prev, vlcVars, ld_out,
                   ld_shown>>
    /\ UNCHANGED <<mpAll, pVars>>

\* lines 140-143
LDLoopRead ==
    /\ Alive
    /\ ld_pc = "l_read"
    /\ ld_cur' = GetTime
    /\ ld_pc' = IF GetTime < 0 THEN "l_check" ELSE "l_emit"
    /\ ld_mono' = (ld_mono /\ GetTime >= ld_last)
    /\ ld_last' = GetTime
    /\ UNCHANGED <<ld_entries, ld_stop_flag, ld_idx, ld_prev, vlcVars, ld_out,
                   ld_shown>>
    /\ UNCHANGED <<mpAll, pVars>>

\* the lyric step as a resolver that settles on the last entry at or
\* before the reading would do it: entries in between are passed over
LDLoopEmitLast ==
    /\ Alive
    /\ ld_pc = "l_emit"
    /\ LET due == {j \in (ld_idx + 1)..Len(ld_entries) :
                      ld_cur + Lead >= ld_entries[j][1]}
           last == CHOOSE j \in due : \A k \in due : k <= j
       IN  IF ld_cur + Lead >= ld_entries[ld_idx + 1][1]
           THEN /\ ld_out' = Append(ld_out, <<last, ld_cur>>)
                /\ ld_idx' = last
           ELSE UNCHANGED <<ld_out, ld_idx>>
    /\ ld_pc' = "l_check"
    /\ UNCHANGED <<ld_entries, ld_stop_flag, ld_cur, ld_prev, vlcVars,
                   ld_shown, ld_mono, ld_last>>
    /\ UNCHANGED <<mpAll, pVars>>

\* lines 144-152: the entry at idx is written once its time has come
LDLoopEmit ==
    /\ Alive
    /\ ld_pc = "l_emit"
    /\ IF ld_cur + Lead >= ld_entries[ld_idx + 1][1]
       THEN /\ ld_out' = Append(ld_out, <<ld_idx + 1, ld_cur>>)
            /\ ld_idx' = ld_idx + 1
       ELSE UNCHANGED <<ld_out, ld_idx>>
    /\ ld_pc' = "l_check"
    /\ UNCHANGED <<ld_entries, ld_stop_flag, ld_cur, ld_prev, vlcVars,
                   ld_shown, ld_mono, ld_last>>
    /\ UNCHANGED <<mpAll, pVars>>

\* lines 154-155: after the transcript, wait for the end of playback
LDWaitCheck ==
    /\ Alive
    /\ ld_pc = "w_check"
    /\ ld_pc' = IF ~ld_stop_flag /\ IsPlaying THEN "w_check" ELSE "done"
    /\ UNCHANGED <<ld_entries, ld_stop_flag, ld_idx, ld_cur, ld_prev, vlcVars,
                   ldHist>>
    /\ UNCHANGED <<mpAll, pVars>>

LDNext ==
    \/ VlcOpened
    \/ VlcAdvance
    \/ VlcEnded
    \/ MainCheck
    \/ MainCmdP
    \/ MainCmdS
    \/ MainCmdOther
    \/ MainInterrupt
    \/ LDStop
    \/ MainFinalStop
    \/ MainExit
    \/ LDRunStart
    \/ LDTimerCheck
    \/ LDTimerRead
    \/ LDTimerWrite
    \/ LDLoopCheck
    \/ LDLoopRead
    \/ LDLoopEmit
    \/ LDWaitCheck

SpecLD == LDInit /\ [][LDNext]_vars

\* the steps of the thread that runs LyricsDisplayer.run
LDThread ==
    \/ LDRunStart
    \/ LDTimerCheck
    \/ LDTimerRead
    \/ LDTimerWrite
    \/ LDLoopCheck
    \/ LDLoopRead
    \/ LDLoopEmit
    \/ LDWaitCheck

\* the thread is scheduled again and again while the process lives: each of
\* its sleeps (0.05 s, 0.1 s, 0.2 s) ends and its next step is taken.  No
\* fairness for main() (it waits for the user) nor for the player.
SpecLDFair == LDInit /\ [][LDNext]_vars /\ WF_vars(LDThread)
Init == MPInit /\ LDIdle /\ PIdle

Next == MPNext

Spec == Init /\ [][Next]_vars

\* one call of parse_lrc on any file of lines
ParseInit == MPInit /\ LDIdle /\ PInit
SpecParse == ParseInit /\ [][PNext]_vars

(***************************************************************************)
(* Properties of MusicPlayer                                               *)
(***************************************************************************)
Stopped == ~playing /\ ~paused
Playing == playing /\ ~paused
Paused == playing /\ paused

\* index of the last entry of tl whose start offset is <= t + tolerance
\* (0 when there is none), stated without the loop
LastIdx(tl, t) ==
    LET S == {i \in 1..Len(tl) : tl[i][1] <= t + Tolerance}
    IN  IF S = {} THEN 0 ELSE CHOOSE i \in S : \A j \in S : j <= i

\* C1: a tick taken while Playing or Paused with elapsed reading t leaves
\* lyric_var equal to the text of the last entry whose start offset is
\* <= t + 100 ms (the last one of a tie), also when that text is empty.
C1_TickPresentsLastEntry ==
    [][(ev' = "tick" /\ (playing \/ paused)
            /\ LastIdx(lrc, GetPlayTime) # 0)
        => lyric_var' = lrc[LastIdx(lrc, GetPlayTime)][2]]_vars

\* C2: stop() directly followed by an accepted play_pause() gives state
\* Playing with elapsed 0, and a tick taken right after that restart, when
\* the first entry (start offset 0) is the entry resolved at elapsed 0,
\* leaves lyric_var equal to that entry's text.
C2_RestartPresentsFirst ==
    [][/\ (ev = "stop" /\ ev' = "play")
            => (playing' /\ ~paused' /\ GetPlayTime' = 0)
       /\ (restart /\ ev' = "tick" /\ Len(lrc) >= 1 /\ lrc[1][1] = 0
            /\ LastIdx(lrc, GetPlayTime) = 1)
            => lyric_var' = lrc[1][2]]_vars

\* C3: a tick never moves the presented entry back to an earlier entry of
\* the timeline (shownIdx is reset by stop() and load(), so the earlier
\* presentation was made with no stop() or load() since).
C3_NoRegress ==
    [][ev' = "tick" => shownIdx' >= shownIdx]_vars

\* C5: while Paused, get_play_time returns the elapsed position of the
\* instant the pause was issued.
C5_PausedElapsedFrozen ==
    Paused => GetPlayTime = pausedAt

\* C6: right after a resume, get_play_time returns the elapsed value the
\* pause was issued at.
C6_ResumeKeepsElapsed ==
    [][ev' = "resume" => GetPlayTime' = pausedAt]_vars

\* C7: the flags never hold paused = True with playing = False, and the
\* state after construction is Stopped.
C7_FlagsEncodeState ==
    /\ ~(paused /\ ~playing)
    /\ ev = "init" => Stopped

\* a load the player rejected has left the flags of state Paused as they were
C7_Witness ==
    /\ ev = "load_rejected"
    /\ Paused
    /\ pause_offset > 0

\* C8: stop() leaves the state Stopped with pause_offset 0, and in every
\* Stopped state (so from a stop() until the next play) get_play_time
\* returns 0.
C8_StopResets ==
    /\ ev = "stop" => (Stopped /\ pause_offset = 0)
    /\ Stopped => (pause_offset = 0 /\ GetPlayTime = 0)

\* stop() has acted on a player that had played (start_time was set at a
\* clock value > 0) and time has passed since
C8_Witness ==
    /\ ev = "advance"
    /\ Stopped
    /\ lyric_var = StoppedText
    /\ start_time > 0
    /\ now > start_time

\* C9: after a load that went through, self.lrc holds exactly the entries
\* of the caption source chosen in that load (none: the empty timeline).
C9_LoadReplacesTimeline ==
    ev \in {"load_lrc", "load_nolrc"} => lrc = capSrc

\* C10: a position query that raises inside update_loop does not end the
\* tick loop: update_loop stays scheduled.
C10_TickLoopSurvives ==
    ev = "tick_err" => loopAlive

\* the steps that are a call of play_pause
PlayPauseEvents == {"play_nofile", "play_rejected", "play", "pause", "resume"}

\* C11: a play_pause that finds no audio_path, or whose play() is rejected,
\* or that runs while no music was ever loaded into the mixer (never loaded,
\* or every load rejected), leaves playing, paused, start_time and
\* pause_offset as they were, and the state is Stopped before and after.
C11_FailedPlayChangesNothing ==
    [][(ev' \in PlayPauseEvents /\
        (~mloaded \/ ev' \in {"play_nofile", "play_rejected"})) =>
        /\ Stopped
        /\ Stopped'
        /\ UNCHANGED <<playing, paused, start_time, pause_offset>>]_vars

\* play_pause was rejected after the only load was rejected too (audio_path
\* is set by line 72, the mixer holds no music), at a later clock value
C11_Witness ==
    /\ ev = "play_rejected"
    /\ audio_path # ""
    /\ ~mloaded
    /\ now > 0
    /\ Stopped

\* C16: with an empty timeline, a tick of a session (Playing or Paused)
\* leaves the empty value presented: the first tick presents it and no
\* later tick changes it.
C16_EmptyTimelinePresentsEmpty ==
    [][(ev' = "tick" /\ (playing \/ paused) /\ lrc = <<>>) =>
        lyric_var' = ""]_vars

\* C17: a tick that runs while the state is Stopped changes no field of the
\* player and nothing of the mixer or clock; and while Stopped after stop(),
\* the stopped value stays presented until the next accepted play.
C17_StoppedTickChangesNothing ==
    [][/\ (ev' = "tick" /\ Stopped) => UNCHANGED <<mpVars, envVars>>
       /\ (Stopped /\ lyric_var = StoppedText /\ ev' # "play") =>
             (Stopped' /\ lyric_var' = StoppedText)]_vars

\* a tick ran after stop() with a timeline whose first entry is due at 0
C17_Witness ==
    /\ ev = "tick"
    /\ Stopped
    /\ lyric_var = StoppedText
    /\ Len(lrc) > 0
    /\ lrc[1] = <<0, "A">>
    /\ now > 0

(***************************************************************************)
(* What the code does do in the cases above (checked under Spec)           *)
(***************************************************************************)
\* a tick presents the last entry at or before t + 100 ms when its text is
\* not empty, and leaves lyric_var alone otherwise
TickPresentsNonEmpty ==
    [][(ev' = "tick" /\ (playing \/ paused)) =>
        LET i == LastIdx(lrc, GetPlayTime)
        IN  IF i # 0 /\ lrc[i][2] # ""
            THEN lyric_var' = lrc[i][2]
            ELSE lyric_var' = lyric_var]_vars

\* with a position reported by the player, the paused value is the one of
\* the instant of the pause, and a resume keeps it
NativePauseFrozen ==
    (Paused /\ GetPos >= 0) => GetPlayTime = pausedAt

NativeResumeKeeps ==
    [][(ev' = "resume" /\ GetPos >= 0) => GetPlayTime' = pausedAt]_vars

\* the presentation moves back only through a pause_offset of -1
RegressOnlyByNegativeOffset ==
    [][(ev' = "tick" /\ pause_offset >= 0) => shownIdx' >= shownIdx]_vars

\* a load that parsed a caption source holds exactly its entries
LoadWithCaptionsReplaces ==
    ev = "load_lrc" => lrc = capSrc

\* with an empty timeline no tick touches lyric_var
EmptyTimelineTicksSilent ==
    [][(ev' = "tick" /\ lrc = <<>>) => lyric_var' = lyric_var]_vars

C12_NoWriteAfterStop ==
    [][ld_stop_flag => (ld_out' = ld_out /\ ld_prev' = ld_prev)]_vars

(***************************************************************************)
(* Properties of the timelines built                                       *)
(***************************************************************************)
\* the entries of tl whose offset is o, in the order tl has them
WithOffset(tl, o) ==
    LET Test(e) == e[1] = o
    IN  SelectSeq(tl, Test)

\* out has non-decreasing offsets and, for each offset, the entries of in
\* with that offset in the order in has them
SortedStable(in, out) ==
    /\ IsSorted(out)
    /\ Len(out) = Len(in)
    /\ \A i \in 1..Len(in) : WithOffset(out, in[i][1]) = WithOffset(in, in[i][1])

\* what parse_lrc returns is its entries, sorted by offset, ties in append
\* order (checked under SpecParse)
ParseLrcSortedStable ==
    p_pc = "done" => SortedStable(p_entries, p_result)

\* C13: every timeline built has non-decreasing start offsets, entries with
\* equal offsets in input order: the list parse_lrc returns, and the entries
\* list LyricsDisplayer builds from a transcript.
C13_TimelinesSorted ==
    /\ p_pc = "done" => SortedStable(p_entries, p_result)
    /\ IsSorted(ld_entries)

\* the number of markers a line starts with
RECURSIVE LeadingMarkers(_)
LeadingMarkers(line) ==
    IF Len(line) = 0 \/ line[1].k # "m" THEN 0
    ELSE 1 + LeadingMarkers(Tail(line))

\* C14: a line made of k >= 1 markers followed by a text without markers
\* appends exactly k entries, the i-th with the offset of the i-th marker,
\* each with the text that follows the last marker (stripped).
C14_OneEntryPerMarker ==
    LET line == StripToks(p_line)
        k == LeadingMarkers(line)
        text == SubSeq(line, k + 1, Len(line))
    IN  (k >= 1 /\ Len(text) > 0 /\ \A i \in 1..Len(text) : text[i].k # "m") =>
            p_new = [i \in 1..k |-> <<MarkerOffset(line[i]), StripToks(text)>>]

\* what the code appends for such a line with one marker is that entry
\* (checked under SpecParse)
SingleMarkerLine ==
    LET line == StripToks(p_line)
        text == SubSeq(line, 2, Len(line))
    IN  (LeadingMarkers(line) = 1 /\ \A i \in 1..Len(text) : text[i].k # "m") =>
            p_new = <<<<MarkerOffset(line[1]), StripToks(text)>>>>

RECURSIVE Pow10(_)
Pow10(n) == IF n = 0 THEN 1 ELSE 10 * Pow10(n - 1)

\* minutes*60 + seconds + the fraction read as a decimal fraction of a
\* second, in milliseconds (fractions of up to three digits)
DecimalOffset(m) ==
    (DigitsToInt(m.mm) * 60 + DigitsToInt(m.ss)) * 1000
        + (DigitsToInt(m.fr) * 1000) \div Pow10(Len(m.fr))

\* the first marker of a line that has one
FirstMarker(line) ==
    line[CHOOSE i \in 1..Len(line) :
            line[i].k = "m" /\ \A j \in 1..(i - 1) : line[j].k # "m"]

\* C15: the offset of the entry a marker mm:ss.fr gives is mm*60 + ss plus
\* fr as a decimal fraction of a second (.5, .50 and .500 are all half a
\* second), and a marker without a fraction adds 0.
C15_FractionIsDecimal ==
    Len(p_new) > 0 => p_new[1][1] = DecimalOffset(FirstMarker(StripToks(p_line)))

\* what the code does: the fraction's digits are taken as a count of
\* milliseconds, which is the decimal fraction for three digits or none
\* (checked under SpecParse)
FractionIsMilliseconds ==
    Len(p_new) > 0 =>
        LET m == FirstMarker(StripToks(p_line))
        IN  /\ p_new[1][1] = (DigitsToInt(m.mm) * 60 + DigitsToInt(m.ss)) * 1000
                                + DigitsToInt(m.fr)
            /\ Len(m.fr) \in {0, 3} => p_new[1][1] = DecimalOffset(m)

(***************************************************************************)
(* Properties of LyricsDisplayer.run as a driver                           *)
(***************************************************************************)
\* the step in which run() returns
RunReturns == ld_pc # "done" /\ ld_pc' = "done"

\* C18: run() keeps going across a pause: it never returns while the player
\* is paused and stop() has not been called, with a transcript (lyric loop,
\* wait loop) and without one (timer loop).
C18_RunSurvivesPause ==
    [][RunReturns => ~(vstate = "paused" /\ ~ld_stop_flag)]_vars

\* what the code does: without stop(), run() returns exactly when it finds
\* the player not playing (paused, still opening, ended or stopped)
RunReturnsWhenNotPlaying ==
    [][RunReturns => (ld_stop_flag \/ ~IsPlaying)]_vars

\* C19 as stated: once stop() has been called, run() eventually returns.
C19_StopLeadsToReturn ==
    ld_stop_flag ~> (ld_pc = "done")

\* C19 as amended: once stop() has been called, run() eventually returns
\* from wherever it is in its loops, unless the process ends first (main()
\* returns 0.2 s after stop() without joining the daemon thread).
C19_StopLeadsToReturnOrExit ==
    ld_stop_flag ~> (ld_pc = "done" \/ ~Alive)

\* run() has returned after stop(), out of the lyric loop with entries left
\* and a negative reading as its last one, the process still alive
C19_Witness ==
    /\ ld_stop_flag
    /\ ld_pc = "done"
    /\ Alive
    /\ ld_idx < Len(ld_entries)
    /\ ld_cur < 0

\* C20: in run(), idx never decreases; a step that writes a lyric line
\* writes one line, for the entry just behind idx, whose index is above
\* that of every line written before (each entry at most once, in list
\* order); and the time the player reported in that iteration (current_ms)
\* is non-negative and at least the entry's start time minus 250 ms.
C20_EmitInOrderWhenDue ==
    [][/\ ld_idx' >= ld_idx
       /\ ld_out' # ld_out =>
             /\ ld_out' = Append(ld_out, <<ld_idx + 1, ld_cur>>)
             /\ ld_idx' = ld_idx + 1
             /\ \A j \in 1..Len(ld_out) : ld_out[j][1] < ld_idx + 1
             /\ ld_cur = ld_last
             /\ ld_cur >= 0
             /\ ld_cur + Lead >= ld_entries[ld_idx + 1][1]]_vars

\* two lines were written, the second inside the 250 ms before its start
\* time, and the thread is back at the loop condition
C20_Witness ==
    /\ Len(ld_out) = 2
    /\ ld_idx = 2
    /\ ld_out[2][2] < ld_entries[2][1]
    /\ ld_out[1][2] >= ld_entries[1][1]
    /\ ld_pc = "l_check"


=============================================================================
